---- MODULE Spec2Model ----
(***************************************************************************)
(* Model of custom_components/template_water_heater/water_heater.py:       *)
(* ComplexWaterHeater, an entity that projects a switch entity and a       *)
(* temperature sensor entity of the host into one water heater.            *)
(*                                                                         *)
(* Texts (entity states) are sequences of one-character strings, so that   *)
(* float() is modelled by what it does to the characters.                  *)
(***************************************************************************)
EXTENDS Integers, Sequences, FiniteSets, TLC

(***************************************************************************)
(* Bounds of the model.                                                    *)
(***************************************************************************)
\* most state-change notifications of one entity awaiting delivery
MaxPending == 1

(***************************************************************************)
(* Constants of the program.                                               *)
(***************************************************************************)
\* .const.ROOM_TEMP and .const.BOIL_TEMP (const.py)
ROOM_TEMP == 25
BOIL_TEMP == 100

STATE_ON == <<"o", "n">>
STATE_OFF == <<"o", "f", "f">>
STATE_UNKNOWN == <<"u", "n", "k", "n", "o", "w", "n">>
STATE_UNAVAILABLE == <<"u", "n", "a", "v", "a", "i", "l", "a", "b", "l", "e">>
STATE_ELECTRIC == <<"e", "l", "e", "c", "t", "r", "i", "c">>
SERVICE_TURN_ON == "turn_on"
SERVICE_TURN_OFF == "turn_off"

\* Python's None; hass.states.get() of an entity that has no state
None == [kind |-> "none"]

\* a State object of the host, with its textual state
State(text) == [kind |-> "state", state |-> text]

(***************************************************************************)
(* float(str), as CPython computes it: strip whitespace, check and drop    *)
(* underscores, then an optional sign followed by inf, infinity, nan or a  *)
(* decimal literal with an optional exponent.  A finite value is kept      *)
(* exactly, as m * 10^e with m not divisible by 10.                        *)
(***************************************************************************)
Digits == {"0", "1", "2", "3", "4", "5", "6", "7", "8", "9"}

\* float() strips the six ASCII whitespace characters.  The vertical tab has
\* no escape in a string: VT holds the character itself (code 11).  Texts
\* are ASCII; the non-ASCII spaces and digits float() also accepts are out
\* of the alphabet.
VT == ""

Whitespace == {" ", "\t", "\n", "\r", "\f", VT}

DigitVal(c) ==
    CASE c = "0" -> 0 [] c = "1" -> 1 [] c = "2" -> 2 [] c = "3" -> 3
      [] c = "4" -> 4 [] c = "5" -> 5 [] c = "6" -> 6 [] c = "7" -> 7
      [] c = "8" -> 8 [] c = "9" -> 9

Lower(c) ==
    CASE c = "I" -> "i" [] c = "N" -> "n" [] c = "F" -> "f" [] c = "T" -> "t"
      [] c = "Y" -> "y" [] c = "A" -> "a" [] c = "E" -> "e" [] OTHER -> c

RECURSIVE LStrip(_)
LStrip(s) ==
    IF s # <<>> /\ Head(s) \in Whitespace THEN LStrip(Tail(s)) ELSE s

RECURSIVE RStrip(_)
RStrip(s) ==
    IF s # <<>> /\ s[Len(s)] \in Whitespace
    THEN RStrip(SubSeq(s, 1, Len(s) - 1))
    ELSE s

Strip(s) == RStrip(LStrip(s))

\* _Py_string_to_number_with_underscores: an underscore must follow a digit
\* and be followed by a digit
UnderscoresOk(s) ==
    \A i \in 1..Len(s) :
        s[i] = "_" =>
            /\ i > 1 /\ s[i - 1] \in Digits
            /\ i < Len(s) /\ s[i + 1] \in Digits

DropUnderscores(s) == SelectSeq(s, LAMBDA c : c # "_")

\* the first position at or after i that holds no digit
RECURSIVE SkipDigits(_, _)
SkipDigits(s, i) ==
    IF i <= Len(s) /\ s[i] \in Digits THEN SkipDigits(s, i + 1) ELSE i

\* the number written by the digits s[i..j-1], continuing from acc
RECURSIVE DigitsValue(_, _, _, _)
DigitsValue(s, i, j, acc) ==
    IF i >= j THEN acc ELSE DigitsValue(s, i + 1, j, 10 * acc + DigitVal(s[i]))

RECURSIVE NumDigits(_)
NumDigits(n) == IF n < 10 THEN 1 ELSE 1 + NumDigits(n \div 10)

ValueError == [kind |-> "ValueError"]
Inf == [kind |-> "inf"]
NaN == [kind |-> "nan"]
Num(m, e) == [kind |-> "num", m |-> m, e |-> e]

RECURSIVE Pow10(_)
Pow10(n) == IF n = 0 THEN 1 ELSE 10 * Pow10(n - 1)

\* the first nine digits of m > 0 (m has at most ten), padded with zeros
Leading9(m) ==
    IF NumDigits(m) <= 9 THEN m * Pow10(9 - NumDigits(m)) ELSE m \div 10

\* m * 10^e rounds to inf: it is at least 1.797693134862315808e308
Overflows(m, e) ==
    \/ NumDigits(m) + e - 1 > 308
    \/ /\ NumDigits(m) + e - 1 = 308
       /\ IF NumDigits(m) <= 9 THEN Leading9(m) >= 179769314
          ELSE m >= 1797693135

\* m * 10^e rounds to zero: it is at most 2.470328229206232721e-324
Underflows(m, e) ==
    \/ NumDigits(m) + e - 1 < -324
    \/ NumDigits(m) + e - 1 = -324 /\ Leading9(m) <= 247032822

\* sign * m * 10^e as a double: zero, a finite value, or inf on overflow.
\* The value is exact for the texts of up to nine significant digits in the
\* normal range of a double, where distinct decimals are distinct doubles.
RECURSIVE Normalise(_, _, _)
Normalise(sign, m, e) ==
    IF m = 0 THEN Num(0, 0)
    ELSE IF m % 10 = 0 THEN Normalise(sign, m \div 10, e + 1)
    ELSE IF Overflows(m, e) THEN Inf
    ELSE IF Underflows(m, e) THEN Num(0, 0)
    ELSE Num(sign * m, e)

\* The decimal literal s (sign already taken):
\*     digits [. digits] [e [sign] digits]
\* It is read in stages, each handing the positions it found to the next:
\* i1 ends the integer digits, i2 the fraction, i3 starts the exponent's
\* digits and i4 ends them.
ParseExponentDigits(sign, s, mant, nfrac, esign, i3, i4) ==
    IF i4 = i3 \/ i4 # Len(s) + 1 THEN ValueError
    ELSE Normalise(sign, mant,
                   (IF esign = "-" THEN 0 - DigitsValue(s, i3, i4, 0)
                    ELSE DigitsValue(s, i3, i4, 0)) - nfrac)

ParseExponent(sign, s, mant, nfrac, i2) ==
    LET esign == IF i2 + 1 <= Len(s) /\ s[i2 + 1] \in {"+", "-"}
                 THEN s[i2 + 1] ELSE ""
    IN  ParseExponentDigits(sign, s, mant, nfrac, esign,
            IF esign = "" THEN i2 + 1 ELSE i2 + 2,
            SkipDigits(s, IF esign = "" THEN i2 + 1 ELSE i2 + 2))

ParseMantissa(sign, s, i1, dot, i2) ==
    LET nfrac == IF dot THEN i2 - (i1 + 1) ELSE 0
        mant == DigitsValue(s, IF dot THEN i1 + 1 ELSE i1, i2,
                            DigitsValue(s, 1, i1, 0))
    IN  IF (i1 - 1) + nfrac = 0 THEN ValueError
        ELSE IF i2 <= Len(s) /\ Lower(s[i2]) = "e"
        THEN ParseExponent(sign, s, mant, nfrac, i2)
        ELSE IF i2 = Len(s) + 1 THEN Normalise(sign, mant, 0 - nfrac)
        ELSE ValueError

ParseFraction(sign, s, i1) ==
    IF i1 <= Len(s) /\ s[i1] = "."
    THEN ParseMantissa(sign, s, i1, TRUE, SkipDigits(s, i1 + 1))
    ELSE ParseMantissa(sign, s, i1, FALSE, i1)

ParseDecimal(sign, s) == ParseFraction(sign, s, SkipDigits(s, 1))

\* the text after its sign: inf, infinity and nan in any case, or a decimal
ParseUnsigned(sign, body) ==
    LET low == [i \in 1..Len(body) |-> Lower(body[i])]
    IN  IF low \in {<<"i", "n", "f">>,
                    <<"i", "n", "f", "i", "n", "i", "t", "y">>} THEN Inf
        ELSE IF low = <<"n", "a", "n">> THEN NaN
        ELSE ParseDecimal(sign, body)

ParseSigned(s) ==
    IF s # <<>> /\ s[1] \in {"+", "-"}
    THEN ParseUnsigned(IF s[1] = "-" THEN -1 ELSE 1, Tail(s))
    ELSE ParseUnsigned(1, s)

ParseStripped(s) ==
    IF ~UnderscoresOk(s) THEN ValueError ELSE ParseSigned(DropUnderscores(s))

PyFloat(text) == ParseStripped(Strip(text))

(***************************************************************************)
(* The adapter's properties and helpers.                                   *)
(***************************************************************************)
\* the outcome of reading a property: a value, or an exception
Returns(v) == [raises |-> FALSE, value |-> v]
Raises(e) == [raises |-> TRUE, value |-> e]

\* the two configured entity ids
SwitchEntityId == "switch.heater"
SensorEntityId == "sensor.heater_temperature"

\* the configurations of the model, as <<min_temperature, max_temperature>>:
\* the schema's defaults and one other pair
Configs == {<<ROOM_TEMP, BOIL_TEMP>>, <<30, 60>>}

min_temp == ROOM_TEMP

max_temp == BOIL_TEMP

\* self._attr_is_on is assigned only by the switch listener: reading it
\* before that raises AttributeError
target_temperature(has_on, is_on) ==
    IF ~has_on THEN Raises("AttributeError")
    ELSE Returns(IF is_on THEN max_temp ELSE min_temp)

current_operation(has_on, is_on) ==
    IF ~has_on THEN Raises("AttributeError")
    ELSE Returns(IF is_on THEN STATE_ELECTRIC ELSE STATE_OFF)

\* _async_update_temp without the isnan / isinf check
UpdateTempNoFiniteCheck(cur, state) ==
    IF PyFloat(state.state).kind = "ValueError"
    THEN [cur_temp |-> cur, logs |-> 1]
    ELSE [cur_temp |-> PyFloat(state.state), logs |-> 0]

\* _async_update_temp, given the outcome f of float(state.state): the new
\* _cur_temp and the number of _LOGGER.error calls
UpdateTempFrom(cur, f) ==
    IF f.kind = "ValueError" THEN [cur_temp |-> cur, logs |-> 1]
    ELSE IF f.kind \in {"nan", "inf"} THEN [cur_temp |-> cur, logs |-> 1]
    ELSE [cur_temp |-> f, logs |-> 0]

_async_update_temp(cur, state) == UpdateTempFrom(cur, PyFloat(state.state))

\* the early return of _async_sensor_changed
SensorChangeIgnored(new_state) ==
    new_state = None \/ new_state.state \in {STATE_UNAVAILABLE, STATE_UNKNOWN}

\* _async_startup with its test of the state inverted
StartupAdoptsInverted(sensor_state) ==
    /\ sensor_state # None
    /\ sensor_state.state \in {STATE_UNAVAILABLE, STATE_UNKNOWN}

\* the condition of _async_startup
StartupAdopts(sensor_state) ==
    /\ sensor_state # None
    /\ sensor_state.state \notin {STATE_UNAVAILABLE, STATE_UNKNOWN}

\* the condition of async_state_changed_listener
SwitchMissing(state) == state = None \/ state.state = STATE_UNAVAILABLE

\* the state written for an available entity: current_operation with the
\* temperatures as attributes; an exception of a property propagates
WriteAvailable(op, target, cur) ==
    IF op.raises \/ target.raises
    THEN [wrote |-> FALSE, raised |-> TRUE, state |-> None]
    ELSE [wrote |-> TRUE, raised |-> FALSE,
          state |-> [state |-> op.value, current_temperature |-> cur,
                     temperature |-> target.value]]

\* Entity.async_write_ha_state: nothing for a removed entity; "unavailable"
\* without reading the state when not available
async_write_ha_state(ph, avail, has_on, is_on, cur) ==
    IF ph = "removed" THEN [wrote |-> FALSE, raised |-> FALSE, state |-> None]
    ELSE IF ~avail
    THEN [wrote |-> TRUE, raised |-> FALSE,
          state |-> [state |-> STATE_UNAVAILABLE, current_temperature |-> None,
                     temperature |-> None]]
    ELSE WriteAvailable(current_operation(has_on, is_on),
                        target_temperature(has_on, is_on), cur)

\* async_set_operation_mode with its two branches exchanged
ServiceForSwapped(operation_mode) ==
    IF operation_mode = STATE_OFF THEN SERVICE_TURN_ON ELSE SERVICE_TURN_OFF

\* async_set_operation_mode turning on for "electric" alone
ServiceForListedOnly(operation_mode) ==
    IF operation_mode = STATE_ELECTRIC THEN SERVICE_TURN_ON
    ELSE SERVICE_TURN_OFF

\* async_set_operation_mode: the service it forwards
ServiceFor(operation_mode) ==
    IF operation_mode = STATE_OFF THEN SERVICE_TURN_OFF ELSE SERVICE_TURN_ON

\* async_turn_on / async_turn_off: the call handed to hass.services.async_call
ServiceCall(service) ==
    [domain |-> "switch", service |-> service, entity_id |-> SwitchEntityId]

(***************************************************************************)
(* The inputs of the model.                                                *)
(***************************************************************************)
\* states of the sensor entity: 21.5, 40 (as 4e1), nan, unknown; None is the
\* entity without a state
SensorTexts ==
    { <<"2", "1", ".", "5">>, <<"4", "e", "1">>, <<"n", "a", "n">>, STATE_UNKNOWN }

SensorStates == {State(t) : t \in SensorTexts} \cup {None}

\* more texts for the sensor alone: 7 between spaces, 10 with an underscore,
\* -inf, Infinity, an overflowing 1e999, a non-number, a misplaced underscore,
\* the empty text, unavailable, 7 after a form feed and before a vertical tab
MoreSensorTexts ==
    { <<"\f", "7", VT>>, <<" ", "7", " ">>, <<"1", "_", "0">>, <<"-", "i", "n", "f">>,
      <<"I", "n", "f", "i", "n", "i", "t", "y">>, <<"1", "e", "9", "9", "9">>,
      <<"x">>, <<"1", "_">>, <<>>, STATE_UNAVAILABLE }

AllSensorStates == SensorStates \cup {State(t) : t \in MoreSensorTexts}

SwitchStates ==
    {State(t) : t \in {STATE_ON, STATE_OFF, STATE_UNKNOWN, STATE_UNAVAILABLE}}
        \cup {None}

OperationModes == {STATE_OFF, STATE_ELECTRIC, <<"e", "c", "o">>}

(***************************************************************************)
(* State.                                                                  *)
(***************************************************************************)
VARIABLES
    \* the host
    hostRunning,      \* hass.state == CoreState.running
    switchState,      \* hass.states.get(switch id)
    sensorState,      \* hass.states.get(sensor id)
    sensorQueue,      \* new_state of the sensor events awaiting delivery
    switchPending,    \* number of switch events awaiting delivery
    sensorSub,        \* the sensor subscription is installed
    switchSub,        \* the switch subscription is installed
    startupListener,  \* the EVENT_HOMEASSISTANT_START listener is installed
    haState,          \* the adapter's state as last written to the host
    \* the adapter
    phase,            \* constructed, added, failed (registration raised), removed
    attr_min_temp,    \* self._attr_min_temp
    attr_max_temp,    \* self._attr_max_temp
    cur_temp,         \* self._cur_temp
    attr_available,   \* self._attr_available (True in Entity)
    has_is_on,        \* self._attr_is_on has been assigned
    attr_is_on,       \* self._attr_is_on, when assigned
    \* async_set_operation_mode in progress
    cmdPc,            \* idle, awaiting (the service call), returned
    cmdMode,          \* its operation_mode
    calls,            \* the service calls it has issued
    broadcasts,       \* the 'update' broadcasts it has scheduled
    \* what the last step did
    ran,              \* the adapter callback it ran: register, startup, sensor,
                      \* switch, or none
    logs,             \* _LOGGER.error calls it made
    writes,           \* state writes it emitted
    raised,           \* it raised to the host
    \* history
    lastValid         \* the last delivered reading that was a finite number

hostVars == <<hostRunning, switchState, sensorState, sensorQueue, switchPending,
              sensorSub, switchSub, startupListener, haState>>
fieldVars == <<cur_temp, attr_available, has_is_on, attr_is_on>>
configVars == <<attr_min_temp, attr_max_temp>>
cmdVars == <<cmdPc, cmdMode, calls, broadcasts>>
stepVars == <<ran, logs, writes, raised>>
histVars == <<lastValid>>
vars == <<hostVars, phase, fieldVars, configVars, cmdVars, stepVars, histVars>>

\* a reading that is a valid finite number
IsValidReading(s) == s # None /\ PyFloat(s.state).kind = "num"

ReadingValue(s) == PyFloat(s.state)

Delivered(hist, s) == IF IsValidReading(s) THEN ReadingValue(s) ELSE hist

InitWith(sensorStates) ==
    /\ hostRunning \in BOOLEAN
    /\ switchState \in SwitchStates
    /\ sensorState \in sensorStates
    /\ sensorQueue = <<>>
    /\ switchPending = 0
    /\ sensorSub = FALSE
    /\ switchSub = FALSE
    /\ startupListener = FALSE
    /\ haState = None
    /\ phase = "constructed"
    /\ \E c \in Configs : attr_min_temp = c[1] /\ attr_max_temp = c[2]
    /\ cur_temp = None
    /\ attr_available = TRUE
    /\ has_is_on = FALSE
    /\ attr_is_on = FALSE
    /\ cmdPc = "idle"
    /\ cmdMode = STATE_OFF
    /\ calls = <<>>
    /\ broadcasts = 0
    /\ ran = "none"
    /\ logs = 0
    /\ writes = 0
    /\ raised = FALSE
    /\ lastValid = None

Init == InitWith(SensorStates)

(***************************************************************************)
(* The callbacks, as functions of the adapter's fields.                    *)
(***************************************************************************)
NoWrite == [wrote |-> FALSE, raised |-> FALSE, state |-> None]

\* _async_update_temp's outcome u followed by async_write_ha_state
UpdateAndWrite(ph, avail, has_on, is_on, u) ==
    [cur_temp |-> u.cur_temp, logs |-> u.logs,
     w |-> async_write_ha_state(ph, avail, has_on, is_on, u.cur_temp)]

\* _async_startup: reads the sensor's state and adopts it
_async_startup(ph, cur, avail, has_on, is_on, sensor_state) ==
    IF StartupAdopts(sensor_state)
    THEN UpdateAndWrite(ph, avail, has_on, is_on,
                        _async_update_temp(cur, sensor_state))
    ELSE [cur_temp |-> cur, logs |-> 0, w |-> NoWrite]

\* _async_sensor_changed, given the event's new_state
_async_sensor_changed(ph, cur, avail, has_on, is_on, new_state) ==
    IF SensorChangeIgnored(new_state)
    THEN [cur_temp |-> cur, logs |-> 0, w |-> NoWrite]
    ELSE UpdateAndWrite(ph, avail, has_on, is_on,
                        _async_update_temp(cur, new_state))

\* async_state_changed_listener: reads the switch's state
async_state_changed_listener(ph, cur, avail, has_on, is_on, state) ==
    IF SwitchMissing(state)
    THEN [available |-> FALSE, has_is_on |-> has_on, is_on |-> is_on,
          w |-> NoWrite]
    ELSE [available |-> TRUE, has_is_on |-> TRUE,
          is_on |-> (state.state = STATE_ON),
          w |-> async_write_ha_state(ph, TRUE, TRUE, state.state = STATE_ON, cur)]

\* the switch entity's reaction to a service call
SwitchAfter(state, service) ==
    IF state = None \/ state.state = STATE_UNAVAILABLE THEN state
    ELSE IF service = SERVICE_TURN_ON THEN State(STATE_ON)
    ELSE State(STATE_OFF)

Written(w, old) == IF w.wrote THEN w.state ELSE old

(***************************************************************************)
(* Actions.                                                                *)
(***************************************************************************)
\* async_added_to_hass after the startup read st raised: the switch is
\* neither subscribed to nor read
RegisterAborted(st) ==
    /\ phase' = "failed"
    /\ cur_temp' = st.cur_temp
    /\ logs' = st.logs
    /\ writes' = 0
    /\ raised' = TRUE
    /\ UNCHANGED <<switchSub, startupListener, attr_available, has_is_on,
                   attr_is_on, haState>>

\* async_added_to_hass after the startup read st (or its listen_once): the
\* switch subscription and the first switch read li
RegisterCompleted(st, li) ==
    /\ phase' = IF li.w.raised THEN "failed" ELSE "added"
    /\ cur_temp' = st.cur_temp
    /\ startupListener' = ~hostRunning
    /\ switchSub' = TRUE
    /\ attr_available' = li.available
    /\ has_is_on' = li.has_is_on
    /\ attr_is_on' = li.is_on
    /\ haState' = Written(li.w, Written(st.w, haState))
    /\ logs' = st.logs
    /\ writes' = (IF st.w.wrote THEN 1 ELSE 0) + (IF li.w.wrote THEN 1 ELSE 0)
    /\ raised' = li.w.raised

RegisterAfterStartup(st) ==
    IF st.w.raised THEN RegisterAborted(st)
    ELSE RegisterCompleted(st,
             async_state_changed_listener("added", st.cur_temp, attr_available,
                                          has_is_on, attr_is_on, switchState))

\* async_added_to_hass.  It has no suspension point, so it is one step.  An
\* exception of the startup read's state write ends it before the switch
\* subscription and the first switch read.
Register ==
    /\ phase = "constructed"
    /\ sensorSub' = TRUE
    /\ IF hostRunning
       THEN /\ RegisterAfterStartup(
                   _async_startup("added", cur_temp, attr_available, has_is_on,
                                  attr_is_on, sensorState))
            /\ lastValid' = Delivered(lastValid, sensorState)
       ELSE /\ RegisterAfterStartup(
                   [cur_temp |-> cur_temp, logs |-> 0, w |-> NoWrite])
            /\ lastValid' = lastValid
    /\ ran' = "register"
    /\ UNCHANGED <<hostRunning, switchState, sensorState, sensorQueue,
                   switchPending, configVars, cmdVars>>

\* _async_sensor_changed has run on new_state with outcome r
SensorHandled(new_state, r) ==
    /\ sensorQueue' = Tail(sensorQueue)
    /\ cur_temp' = r.cur_temp
    /\ haState' = Written(r.w, haState)
    /\ lastValid' = Delivered(lastValid, new_state)
    /\ logs' = r.logs
    /\ writes' = IF r.w.wrote THEN 1 ELSE 0
    /\ raised' = r.w.raised

\* the host delivers the oldest pending sensor event to _async_sensor_changed
DeliverSensor ==
    /\ sensorQueue # <<>>
    /\ SensorHandled(Head(sensorQueue),
                     _async_sensor_changed(phase, cur_temp, attr_available,
                         has_is_on, attr_is_on, Head(sensorQueue)))
    /\ ran' = "sensor"
    /\ UNCHANGED <<hostRunning, switchState, sensorState, switchPending,
                   sensorSub, switchSub, startupListener, phase, attr_available,
                   has_is_on, attr_is_on, configVars, cmdVars>>

\* async_state_changed_listener has run with outcome li
SwitchHandled(li) ==
    /\ switchPending' = switchPending - 1
    /\ attr_available' = li.available
    /\ has_is_on' = li.has_is_on
    /\ attr_is_on' = li.is_on
    /\ haState' = Written(li.w, haState)
    /\ writes' = IF li.w.wrote THEN 1 ELSE 0
    /\ raised' = li.w.raised

\* the host delivers a pending switch event to async_state_changed_listener
DeliverSwitch ==
    /\ switchPending > 0
    /\ SwitchHandled(async_state_changed_listener(phase, cur_temp,
                         attr_available, has_is_on, attr_is_on, switchState))
    /\ ran' = "switch"
    /\ logs' = 0
    /\ UNCHANGED <<hostRunning, switchState, sensorState, sensorQueue,
                   sensorSub, switchSub, startupListener, phase, cur_temp,
                   configVars, cmdVars, histVars>>

\* _async_startup has run by the start event with outcome st
StartupHandled(st) ==
    /\ cur_temp' = st.cur_temp
    /\ haState' = Written(st.w, haState)
    /\ lastValid' = Delivered(lastValid, sensorState)
    /\ logs' = st.logs
    /\ writes' = IF st.w.wrote THEN 1 ELSE 0
    /\ raised' = st.w.raised
    /\ ran' = "startup"

\* the host starts: EVENT_HOMEASSISTANT_START runs the listen_once listener,
\* if it is installed, and removes it
HostStarts ==
    /\ ~hostRunning
    /\ hostRunning' = TRUE
    /\ startupListener' = FALSE
    /\ IF startupListener
       THEN StartupHandled(_async_startup(phase, cur_temp, attr_available,
                                          has_is_on, attr_is_on, sensorState))
       ELSE /\ UNCHANGED <<cur_temp, haState, lastValid>>
            /\ ran' = "none"
            /\ logs' = 0
            /\ writes' = 0
            /\ raised' = FALSE
    /\ UNCHANGED <<switchState, sensorState, sensorQueue, switchPending,
                   sensorSub, switchSub, phase, attr_available, has_is_on,
                   attr_is_on, configVars, cmdVars>>

Quiet ==
    /\ ran' = "none"
    /\ logs' = 0
    /\ writes' = 0
    /\ raised' = FALSE

\* the sensor entity changes state; the host queues an event for a subscriber
SensorChangesTo(states) ==
    \E new \in states :
        /\ phase # "constructed"
        /\ new # sensorState
        /\ sensorSub => Len(sensorQueue) < MaxPending
        /\ sensorState' = new
        /\ sensorQueue' = IF sensorSub THEN Append(sensorQueue, new)
                          ELSE sensorQueue
        /\ Quiet
        /\ UNCHANGED <<hostRunning, switchState, switchPending, sensorSub,
                       switchSub, startupListener, haState, phase, fieldVars,
                       configVars, cmdVars, lastValid>>

SensorChanges == SensorChangesTo(SensorStates)

\* the switch entity changes state by itself
SwitchChanges ==
    \E new \in SwitchStates :
        /\ phase # "constructed"
        /\ new # switchState
        /\ switchSub => switchPending < MaxPending
        /\ switchState' = new
        /\ switchPending' = IF switchSub THEN switchPending + 1 ELSE switchPending
        /\ Quiet
        /\ UNCHANGED <<hostRunning, sensorState, sensorQueue, sensorSub,
                       switchSub, startupListener, haState, phase, fieldVars,
                       configVars, cmdVars, histVars>>

\* async_set_operation_mode broadcasting 'update' before it awaits the call
SetOperationModeBroadcastsFirst ==
    \E operation_mode \in OperationModes :
        /\ phase \in {"added", "failed"}
        /\ cmdPc = "idle"
        /\ cmdPc' = "awaiting"
        /\ cmdMode' = operation_mode
        /\ calls' = <<ServiceCall(ServiceFor(operation_mode))>>
        /\ broadcasts' = 1
        /\ Quiet
        /\ UNCHANGED <<hostVars, phase, fieldVars, configVars, histVars>>

\* async_set_operation_mode up to its await: the service call is issued
SetOperationMode ==
    \E operation_mode \in OperationModes :
        /\ phase \in {"added", "failed"}
        /\ cmdPc = "idle"
        /\ cmdPc' = "awaiting"
        /\ cmdMode' = operation_mode
        /\ calls' = <<ServiceCall(ServiceFor(operation_mode))>>
        /\ broadcasts' = 0
        /\ Quiet
        /\ UNCHANGED <<hostVars, phase, fieldVars, configVars, histVars>>

\* the host completes the service call: the switch entity acts on it
SwitchActs(new) ==
    /\ (switchSub /\ new # switchState) => switchPending < MaxPending
    /\ switchState' = new
    /\ switchPending' = IF switchSub /\ new # switchState
                        THEN switchPending + 1 ELSE switchPending

\* the service call completing with the adapter assuming the result
ServiceCallCompletesOptimistic ==
    /\ cmdPc = "awaiting"
    /\ SwitchActs(SwitchAfter(switchState, calls[Len(calls)].service))
    /\ cmdPc' = "returned"
    /\ has_is_on' = TRUE
    /\ attr_is_on' = (calls[Len(calls)].service = SERVICE_TURN_ON)
    /\ Quiet
    /\ UNCHANGED <<hostRunning, sensorState, sensorQueue, sensorSub, switchSub,
                   startupListener, haState, phase, cur_temp, attr_available,
                   configVars, cmdMode, calls, broadcasts, histVars>>

ServiceCallCompletes ==
    /\ cmdPc = "awaiting"
    /\ SwitchActs(SwitchAfter(switchState, calls[Len(calls)].service))
    /\ cmdPc' = "returned"
    /\ Quiet
    /\ UNCHANGED <<hostRunning, sensorState, sensorQueue, sensorSub, switchSub,
                   startupListener, haState, phase, fieldVars, configVars,
                   cmdMode, calls, broadcasts, histVars>>

\* the service call raises: the exception leaves async_set_operation_mode
ServiceCallFails ==
    /\ cmdPc = "awaiting"
    /\ cmdPc' = "idle"
    /\ ran' = "none"
    /\ logs' = 0
    /\ writes' = 0
    /\ raised' = TRUE
    /\ UNCHANGED <<hostVars, phase, fieldVars, configVars, cmdMode, calls,
                   broadcasts, histVars>>

\* async_set_operation_mode after its await: the 'update' broadcast
SetOperationModeResumes ==
    /\ cmdPc = "returned"
    /\ cmdPc' = "idle"
    /\ broadcasts' = broadcasts + 1
    /\ Quiet
    /\ UNCHANGED <<hostVars, phase, fieldVars, configVars, cmdMode, calls,
                   histVars>>

\* the host removes the entity: the async_on_remove callbacks run, which
\* unsubscribe the two state-change trackers
Unregister ==
    /\ phase \in {"added", "failed"}
    /\ phase' = "removed"
    /\ sensorSub' = FALSE
    /\ switchSub' = FALSE
    /\ sensorQueue' = <<>>
    /\ switchPending' = 0
    /\ Quiet
    /\ UNCHANGED <<hostRunning, switchState, sensorState, startupListener,
                   haState, fieldVars, configVars, cmdVars, histVars>>

Next ==
    \/ Register
    \/ DeliverSensor
    \/ DeliverSwitch
    \/ HostStarts
    \/ SensorChanges
    \/ SwitchChanges
    \/ SetOperationMode
    \/ ServiceCallCompletes
    \/ ServiceCallFails
    \/ SetOperationModeResumes
    \/ Unregister

Spec == Init /\ [][Next]_vars

(***************************************************************************)
(* The sensor side alone, over more sensor texts: the switch keeps the     *)
(* state it has at registration and no command is given.                   *)
(***************************************************************************)
InitSensor == InitWith(AllSensorStates)

SensorReports == SensorChangesTo(AllSensorStates)

NextSensor ==
    \/ Register
    \/ DeliverSensor
    \/ HostStarts
    \/ SensorReports
    \/ Unregister

SpecSensor == InitSensor /\ [][NextSensor]_vars


(***************************************************************************)
(* Properties.                                                             *)
(***************************************************************************)
\* a reading the spec calls missing, unknown or unavailable
IsMissingReading(s) ==
    s = None \/ s.state = STATE_UNKNOWN \/ s.state = STATE_UNAVAILABLE

\* no state-change notification awaits delivery, nor the start event
NothingPending ==
    sensorQueue = <<>> /\ switchPending = 0 /\ ~startupListener

TurnOffCall ==
    [domain |-> "switch", service |-> "turn_off", entity_id |-> SwitchEntityId]

\* C1: after any sequence of sensor notifications and startup reads, the
\* current temperature is the most recent delivered reading that was a valid
\* finite number, and unset if none was; invalid, unknown, unavailable and
\* missing readings never change it.
C1_TemperatureIsLastValidReading == cur_temp = lastValid

\* C1 witness: a notification has just delivered an invalid reading (one
\* error logged) and the earlier valid reading is still the temperature.
C1_InvalidReadingAfterValid ==
    ran = "sensor" /\ logs = 1 /\ cur_temp # None /\ cur_temp = lastValid

\* C2 as claimed: a registration or a switch notification that finds the
\* switch absent or unavailable leaves the adapter unavailable, whatever the
\* sensor's state, and no sensor notification or start event changes the
\* availability.
C2_MissingSwitchMakesUnavailable ==
    [][ /\ ((Register \/ DeliverSwitch) /\ SwitchMissing(switchState))
            => ~attr_available'
        /\ (DeliverSensor \/ HostStarts) => attr_available' = attr_available
      ]_vars

\* C3 as claimed: with the on flag set, the target temperature is the
\* configured max_temperature when on and the configured min_temperature
\* when off.
C3_TargetIsConfiguredBound ==
    (phase = "added" /\ has_is_on) =>
        target_temperature(has_is_on, attr_is_on)
            = Returns(IF attr_is_on THEN attr_max_temp ELSE attr_min_temp)

\* C4 as claimed: a switch notification that finds the switch present and not
\* unavailable makes the operating mode electric exactly when the switch is
\* on, off otherwise; and the operating mode of a registered, available
\* adapter is always off or electric.
C4_OperationModeFollowsSwitch ==
    [][ /\ (DeliverSwitch /\ ~SwitchMissing(switchState)) =>
               current_operation(has_is_on', attr_is_on')
                   = Returns(IF switchState.state = STATE_ON
                             THEN STATE_ELECTRIC ELSE STATE_OFF)
        /\ (phase' \in {"added", "failed"} /\ attr_available') =>
               current_operation(has_is_on', attr_is_on')
                   \in {Returns(STATE_OFF), Returns(STATE_ELECTRIC)}
      ]_vars

\* C5 as claimed: set-operation-mode "off" issues one turn-off call to the
\* configured switch and produces no other output.
C5_OffIssuesOnlyTurnOff ==
    (cmdMode = STATE_OFF /\ calls # <<>>) =>
        calls = <<TurnOffCall>> /\ broadcasts = 0

\* C5 amended: set-operation-mode "off" issues exactly one service call,
\* turn_off of the configured switch entity id; its only other output is
\* at most one 'update' broadcast, none before the service call has returned.
C5_OffIssuesOneTurnOffThenUpdate ==
    (cmdMode = STATE_OFF /\ calls # <<>>) =>
        /\ calls = <<TurnOffCall>>
        /\ broadcasts \in {0, 1}
        /\ cmdPc # "idle" => broadcasts = 0

\* C5 witness: a set-operation-mode "off" has run to its end.
C5_OffCommandDone ==
    cmdMode = STATE_OFF /\ calls # <<>> /\ cmdPc = "idle" /\ broadcasts = 1

\* C6 as claimed: with the adapter registered and nothing pending, its
\* availability is that of the switch, its on flag is the switch's state
\* when available, and its temperature is the sensor's valid reading.
C6_ProjectionWhenNothingPending ==
    (phase \in {"added", "failed"} /\ NothingPending) =>
        /\ attr_available = ~SwitchMissing(switchState)
        /\ attr_available =>
               has_is_on /\ attr_is_on = (switchState.state = STATE_ON)
        /\ IsValidReading(sensorState) => cur_temp = ReadingValue(sensorState)

\* C7: a valid reading the sensor already has is adopted without a sensor
\* event: by registration when the host is running, otherwise by the start
\* event, whose listener is installed by registration alone and runs once.
C7_StartupAdoptsValidReading ==
    [][ /\ (Register /\ hostRunning /\ IsValidReading(sensorState)) =>
               cur_temp' = ReadingValue(sensorState) /\ sensorQueue' = sensorQueue
        /\ (Register /\ ~hostRunning) => startupListener'
        /\ (HostStarts /\ startupListener /\ IsValidReading(sensorState)) =>
               cur_temp' = ReadingValue(sensorState) /\ sensorQueue' = sensorQueue
        /\ HostStarts => ~startupListener'
        /\ startupListener' => (startupListener \/ Register)
      ]_vars

\* C7 witness: the start event has just run the startup read of a registered
\* adapter and the sensor's valid reading is the temperature.
C7_AdoptedAtStartEvent ==
    /\ ran = "startup" /\ phase = "added"
    /\ IsValidReading(sensorState) /\ cur_temp = ReadingValue(sensorState)

\* C8 as claimed: after unregistration no callback of the adapter runs: no
\* step changes its fields or writes its state.
C8_NothingRunsAfterUnregister ==
    [][ phase = "removed" =>
            /\ cur_temp' = cur_temp
            /\ attr_available' = attr_available
            /\ has_is_on' = has_is_on
            /\ attr_is_on' = attr_is_on
            /\ writes' = 0
      ]_vars

\* C9 as claimed: a sensor notification with a state that is non-numeric
\* ("unknown" and "unavailable" among the non-numeric texts), NaN or infinite
\* leaves the temperature unchanged and logs exactly one error; one with a
\* valid finite number logs none.
C9_NonNumericLoggedOnce ==
    [][ (DeliverSensor /\ Head(sensorQueue) # None) =>
            IF IsValidReading(Head(sensorQueue)) THEN logs' = 0
            ELSE logs' = 1 /\ cur_temp' = cur_temp
      ]_vars

\* C10 as claimed: a missing, unknown or unavailable reading, delivered by a
\* notification or found by the startup read, is logged and the temperature
\* is kept.
C10_MissingReadingLogged ==
    [][ ( \/ DeliverSensor /\ IsMissingReading(Head(sensorQueue))
          \/ HostStarts /\ startupListener /\ IsMissingReading(sensorState)
          \/ Register /\ hostRunning /\ IsMissingReading(sensorState) )
        => logs' = 1 /\ cur_temp' = cur_temp
      ]_vars

\* a step of async_set_operation_mode
CommandStep ==
    \/ SetOperationMode
    \/ ServiceCallCompletes
    \/ ServiceCallFails
    \/ SetOperationModeResumes

\* C11 as claimed: no operation of the adapter (registration, sensor or
\* switch notification, startup read, set-operation-mode) raises an error to
\* the host.
C11_NoOperationRaises == ~raised

\* C12: each set-operation-mode forwards exactly one service call and awaits
\* it; the 'update' broadcast is scheduled once, by the step that follows the
\* call's return, never while the call is awaited, and never for a command
\* whose call raised.
C12_BroadcastFollowsCompletedCall ==
    [][ /\ SetOperationMode => (Len(calls') = 1 /\ broadcasts' = 0
                                 /\ cmdPc' = "awaiting")
        /\ calls' # calls => SetOperationMode
        /\ cmdPc' = "awaiting" => broadcasts' = 0
        /\ (cmdPc' = "returned" /\ cmdPc # "returned") =>
               (ServiceCallCompletes /\ broadcasts' = 0)
        /\ (cmdPc = "returned" /\ cmdPc' # "returned") =>
               (broadcasts' = 1 /\ cmdPc' = "idle")
        /\ broadcasts' > broadcasts =>
               (cmdPc = "returned" /\ broadcasts' = broadcasts + 1)
        /\ ServiceCallFails => (broadcasts' = 0 /\ cmdPc' = "idle")
      ]_vars

\* C12 witness: a command whose service call completed has broadcast once,
\* and the switch's resulting notification is still pending.
C12_BroadcastAfterCompletion ==
    /\ cmdPc = "idle" /\ Len(calls) = 1 /\ broadcasts = 1
    /\ switchPending > 0

\* C13 as claimed: a switch notification that finds the switch missing or
\* unavailable writes the adapter's state, so that the last written state
\* is unavailable.
C13_UnavailabilityWritten ==
    [][ (DeliverSwitch /\ SwitchMissing(switchState)) =>
            /\ ~attr_available'
            /\ writes' = 1
            /\ haState' # None /\ haState'.state = STATE_UNAVAILABLE
      ]_vars

\* C14: set-operation-mode with any value other than "off", in the operation
\* list or not, is accepted and issues exactly one call, turn_on of the
\* configured switch entity id, and no turn_off.
C14_NonOffIssuesOneTurnOn ==
    /\ (cmdMode # STATE_OFF /\ calls # <<>>) =>
           calls = <<[domain |-> "switch", service |-> SERVICE_TURN_ON,
                      entity_id |-> SwitchEntityId]>>
    /\ [][ SetOperationMode =>
               (~raised' /\ Len(calls') = 1 /\ cmdPc' = "awaiting"
                /\ (cmdMode' # STATE_OFF =>
                        calls'[1].service = SERVICE_TURN_ON)) ]_vars

\* C14 witness: a command with a mode outside the operation list has run to
\* its end with its one turn_on call.
C14_UnlistedModeDone ==
    /\ cmdMode \notin {STATE_OFF, STATE_ELECTRIC}
    /\ cmdPc = "idle" /\ broadcasts = 1
    /\ Len(calls) = 1 /\ calls[1].service = SERVICE_TURN_ON

\* C15 as claimed: every state write of an adapter marked available is made
\* with the on flag already assigned: no callback reaches its state write,
\* completed or raising, while available with the flag never set.
C15_WriteHasOnFlag ==
    [][ (ran' # "none" /\ (writes' > 0 \/ raised') /\ attr_available')
            => has_is_on' ]_vars

\* C16: no step of set-operation-mode changes the adapter's fields; the on
\* flag and the availability change only in the switch listener (a switch
\* notification or registration's first call of it) and the temperature only
\* in the sensor handler or the startup read.
C16_CommandLeavesFields ==
    [][ /\ CommandStep => UNCHANGED fieldVars
        /\ <<attr_available, has_is_on, attr_is_on>>'
               # <<attr_available, has_is_on, attr_is_on>>
           => (DeliverSwitch \/ Register)
        /\ cur_temp' # cur_temp => (DeliverSensor \/ HostStarts \/ Register)
      ]_vars

\* C16 witness: a turn_on command has run to its end and the switch is on,
\* while the adapter still reports off until the notification is delivered.
C16_ModeStaleUntilNotified ==
    /\ cmdPc = "idle" /\ broadcasts = 1 /\ cmdMode = STATE_ELECTRIC
    /\ switchState = State(STATE_ON) /\ switchPending > 0
    /\ attr_available /\ has_is_on /\ ~attr_is_on

====
